---- MODULE Spec2Model ----
(***************************************************************************)
(* Model of api/obfuscate.js: the Lua obfuscation pipeline simpleObfuscate *)
(* and the HTTP handler around it (the handler of lines 110-258).          *)
(*                                                                         *)
(* A text is a sequence of one-character strings.  The regular-expression  *)
(* passes of the source are operators scanning such sequences left to      *)
(* right, the way String.prototype.replace with a /g pattern does.         *)
(***************************************************************************)
EXTENDS Integers, Sequences, FiniteSets, TLC

(* ------------------------------ bounds -------------------------------- *)

\* number of fragments an input text of the Transformer is built from
MaxFrags == 3
\* number of fragments of an input text made of quotes and escapes
MaxLitFrags == 5
\* number of values of a repeated `code` query parameter
MaxRepeat == 2

(* --------------------------- characters ------------------------------- *)

\* the characters of codes 32..95 and 97..126, in code order
AsciiLow == <<" ", "!", "\"", "#", "$", "%", "&", "'", "(", ")", "*", "+", ",", "-", ".", "/", "0", "1", "2", "3", "4", "5", "6", "7", "8", "9", ":", ";", "<", "=", ">", "?", "@", "A", "B", "C", "D", "E", "F", "G", "H", "I", "J", "K", "L", "M", "N", "O", "P", "Q", "R", "S", "T", "U", "V", "W", "X", "Y", "Z", "[", "\\", "]", "^", "_">>
AsciiHigh == <<"a", "b", "c", "d", "e", "f", "g", "h", "i", "j", "k", "l", "m", "n", "o", "p", "q", "r", "s", "t", "u", "v", "w", "x", "y", "z", "{", "|", "}", "~">>

LF == "\n"
Letters == {AsciiHigh[i] : i \in 1..26} \cup {AsciiLow[i] : i \in 34..59}
Digits == {AsciiLow[i] : i \in 17..26}
\* \w of a JavaScript regular expression
WordChars == Letters \cup Digits \cup {"_"}
\* \s of a JavaScript regular expression (the members the model's texts use)
WhiteSpace == {" ", "\t", "\n", "\r", "\f"}
\* what `.` does not match
LineTerminators == {"\n", "\r"}

IndexOf(seq, c) == CHOOSE i \in 1..Len(seq) : seq[i] = c

\* the UTF-8 byte of a character (all the model's characters are ASCII)
CharCode(c) ==
    IF c = "\n" THEN 10
    ELSE IF c = "\t" THEN 9
    ELSE IF c = "\r" THEN 13
    ELSE IF c = "\f" THEN 12
    ELSE IF \E i \in 1..Len(AsciiLow) : AsciiLow[i] = c THEN 31 + IndexOf(AsciiLow, c)
    ELSE 96 + IndexOf(AsciiHigh, c)

\* Buffer.from(inner, 'utf8')
Utf8Bytes(text) == [i \in 1..Len(text) |-> CharCode(text[i])]

b64chars == <<"A", "B", "C", "D", "E", "F", "G", "H", "I", "J", "K", "L", "M", "N", "O", "P", "Q", "R", "S", "T", "U", "V", "W", "X", "Y", "Z", "a", "b", "c", "d", "e", "f", "g", "h", "i", "j", "k", "l", "m", "n", "o", "p", "q", "r", "s", "t", "u", "v", "w", "x", "y", "z", "0", "1", "2", "3", "4", "5", "6", "7", "8", "9", "+", "/">>

\* Buffer.prototype.toString('base64')
RECURSIVE Base64(_)
Base64(bytes) ==
    LET n == Len(bytes)
        E(v) == b64chars[v + 1]
    IN  IF n = 0 THEN <<>>
        ELSE IF n = 1 THEN
            <<E(bytes[1] \div 4), E((bytes[1] % 4) * 16), "=", "=">>
        ELSE IF n = 2 THEN
            <<E(bytes[1] \div 4), E((bytes[1] % 4) * 16 + (bytes[2] \div 16)),
              E((bytes[2] % 16) * 4), "=">>
        ELSE
            <<E(bytes[1] \div 4), E((bytes[1] % 4) * 16 + (bytes[2] \div 16)),
              E((bytes[2] % 16) * 4 + (bytes[3] \div 64)), E(bytes[3] % 64)>>
            \o Base64(SubSeq(bytes, 4, n))

(* ----------------------------- text helpers --------------------------- *)

\* does pat occur in s at position i
StartsWith(s, i, pat) ==
    /\ i + Len(pat) - 1 <= Len(s)
    /\ SubSeq(s, i, i + Len(pat) - 1) = pat

Contains(s, pat) == \E i \in 1..Len(s) : StartsWith(s, i, pat)

\* first position >= i holding a character outside set (Len(s)+1 if none)
RECURSIVE SkipWhile(_, _, _)
SkipWhile(s, i, set) ==
    IF i <= Len(s) /\ s[i] \in set THEN SkipWhile(s, i + 1, set) ELSE i

\* first position >= i holding a character of set (Len(s)+1 if none)
RECURSIVE SkipUntil(_, _, _)
SkipUntil(s, i, set) ==
    IF i <= Len(s) /\ s[i] \notin set THEN SkipUntil(s, i + 1, set) ELSE i

\* first position >= i where pat occurs (0 if none)
RECURSIVE Find(_, _, _)
Find(s, i, pat) ==
    IF i + Len(pat) - 1 > Len(s) THEN 0
    ELSE IF StartsWith(s, i, pat) THEN i
    ELSE Find(s, i + 1, pat)

\* String(n) of a non-negative integer
RECURSIVE Decimal(_)
Decimal(n) ==
    IF n < 10 THEN <<AsciiLow[17 + n]>>
    ELSE Append(Decimal(n \div 10), AsciiLow[17 + (n % 10)])

\* Number(digits) of a run of decimal digits
RECURSIVE NumberOf(_)
NumberOf(ds) ==
    IF Len(ds) = 0 THEN 0
    ELSE 10 * NumberOf(SubSeq(ds, 1, Len(ds) - 1)) + (IndexOf(AsciiLow, ds[Len(ds)]) - 17)

\* s.replace(/pat/g, rep) for a pattern that is a fixed text
RECURSIVE ReplaceAll(_, _, _, _)
ReplaceAll(s, i, pat, rep) ==
    IF i > Len(s) THEN <<>>
    ELSE IF StartsWith(s, i, pat) THEN rep \o ReplaceAll(s, i + Len(pat), pat, rep)
    ELSE <<s[i]>> \o ReplaceAll(s, i + 1, pat, rep)

RECURSIVE Join(_, _)
Join(texts, sep) ==
    IF Len(texts) = 0 THEN <<>>
    ELSE IF Len(texts) = 1 THEN texts[1]
    ELSE texts[1] \o sep \o Join(Tail(texts), sep)

\* last position <= j holding a character outside set (0 if none)
RECURSIVE SkipBack(_, _, _)
SkipBack(s, j, set) ==
    IF j >= 1 /\ s[j] \in set THEN SkipBack(s, j - 1, set) ELSE j

\* s.trim()
Trim(s) == SubSeq(s, SkipWhile(s, 1, WhiteSpace), SkipBack(s, Len(s), WhiteSpace))

(* ---------------------- simpleObfuscate, stage 1 ---------------------- *)

\* `__STR${idx}__`
Placeholder(idx) == <<"_", "_", "S", "T", "R">> \o Decimal(idx) \o <<"_", "_">>

\* The body (?:\\.|[^\\q])* and the closing quote q of a literal, scanned
\* from position j: the position of the closing quote, 0 if the literal
\* does not close.  A backslash must be followed by a character `.` matches.
RECURSIVE LiteralEnd(_, _, _)
LiteralEnd(s, q, j) ==
    IF j > Len(s) THEN 0
    ELSE IF s[j] = q THEN j
    ELSE IF s[j] = "\\" THEN
        IF j + 1 <= Len(s) /\ s[j + 1] \notin LineTerminators
        THEN LiteralEnd(s, q, j + 2)
        ELSE 0
    ELSE LiteralEnd(s, q, j + 1)

\* code.replace(/("(?:\\.|[^\\"])*"|'(?:\\.|[^\\'])*')/g, m => ...):
\* each literal is pushed on strings and replaced by its placeholder
RECURSIVE ExtractFrom(_, _, _, _)
ExtractFrom(s, i, out, strs) ==
    IF i > Len(s) THEN [code |-> out, strings |-> strs]
    ELSE
        LET e == IF s[i] \in {"\"", "'"} THEN LiteralEnd(s, s[i], i + 1) ELSE 0
        IN  IF e > 0
            THEN ExtractFrom(s, e + 1, out \o Placeholder(Len(strs)),
                             Append(strs, SubSeq(s, i, e)))
            ELSE ExtractFrom(s, i + 1, Append(out, s[i]), strs)

ExtractStrings(s) == ExtractFrom(s, 1, <<>>, <<>>)

(* ---------------------- simpleObfuscate, stage 2 ---------------------- *)

\* code.replace(/--\[\[[\s\S]*?\]\]/g, '')
RECURSIVE RemoveBlockComments(_, _)
RemoveBlockComments(s, i) ==
    IF i > Len(s) THEN <<>>
    ELSE
        LET close == IF StartsWith(s, i, <<"-", "-", "[", "[">>) THEN Find(s, i + 4, <<"]", "]">>) ELSE 0
        IN  IF close > 0
            THEN RemoveBlockComments(s, close + 2)
            ELSE <<s[i]>> \o RemoveBlockComments(s, i + 1)

\* One attempt of /(^|\n)\s*--.*(?=\n|$)/ at position i: the position after
\* the match, 0 if there is none.  Without the m flag ^ is the start of the
\* text and $ its end.
LineCommentEnd(s, i) ==
    IF ~(i = 1 \/ (i <= Len(s) /\ s[i] = LF)) THEN 0
    ELSE
        LET AfterDashes(from) ==
                LET d == SkipWhile(s, from, WhiteSpace)
                IN  IF StartsWith(s, d, <<"-", "-">>)
                    THEN LET e == SkipUntil(s, d + 2, LineTerminators)
                         IN  IF e > Len(s) \/ s[e] = LF THEN e ELSE 0
                    ELSE 0
            viaStart == IF i = 1 THEN AfterDashes(1) ELSE 0
            viaLF == IF i <= Len(s) /\ s[i] = LF THEN AfterDashes(i + 1) ELSE 0
        IN  IF viaStart > 0 THEN viaStart ELSE viaLF

\* code.replace(/(^|\n)\s*--.*(?=\n|$)/g, '\n')
RECURSIVE RemoveLineComments(_, _)
RemoveLineComments(s, i) ==
    IF i > Len(s) + 1 THEN <<>>
    ELSE
        LET e == LineCommentEnd(s, i)
        IN  IF e > 0 THEN <<LF>> \o RemoveLineComments(s, e)
            ELSE IF i > Len(s) THEN <<>>
            ELSE <<s[i]>> \o RemoveLineComments(s, i + 1)

RemoveComments(s) == RemoveLineComments(RemoveBlockComments(s, 1), 1)

(* ---------------------- simpleObfuscate, stage 3 ---------------------- *)

AddLocal(names, name) ==
    IF \E k \in 1..Len(names) : names[k] = name THEN names ELSE Append(names, name)

\* while ((m = /\blocal\s+([a-zA-Z_][a-zA-Z0-9_]*)/g.exec(code)) !== null)
\*     locals.add(m[1]);    a Set keeps insertion order
RECURSIVE CollectLocals(_, _, _)
CollectLocals(s, i, names) ==
    IF i > Len(s) THEN names
    ELSE
        LET ws == i + 5
            id == SkipWhile(s, ws, WhiteSpace)
            e == SkipWhile(s, id, WordChars)
            hit == /\ StartsWith(s, i, <<"l", "o", "c", "a", "l">>)
                   /\ (i = 1 \/ s[i - 1] \notin WordChars)
                   /\ id > ws
                   /\ id <= Len(s)
                   /\ s[id] \in Letters \cup {"_"}
        IN  IF hit
            THEN CollectLocals(s, e, AddLocal(names, SubSeq(s, id, e - 1)))
            ELSE CollectLocals(s, i + 1, names)

(* ---------------------- simpleObfuscate, stage 4 ---------------------- *)

alpha == <<"a", "b", "c", "d", "e", "f", "g", "h", "i", "j", "k", "l", "m", "n", "o", "p", "q", "r", "s", "t", "u", "v", "w", "x", "y", "z">>

\* '_' + alpha[(idx++) % alpha.length], for the k-th name (idx = k - 1)
ShortName(k) == <<"_", alpha[((k - 1) % Len(alpha)) + 1]>>

\* code.replace(new RegExp('\\b' + orig + '\\b', 'g'), rep)
RECURSIVE ReplaceWord(_, _, _, _)
ReplaceWord(s, i, orig, rep) ==
    IF i > Len(s) THEN <<>>
    ELSE
        LET e == i + Len(orig)
            hit == /\ StartsWith(s, i, orig)
                   /\ (i = 1 \/ s[i - 1] \notin WordChars)
                   /\ (e > Len(s) \/ s[e] \notin WordChars)
        IN  IF hit THEN rep \o ReplaceWord(s, e, orig, rep)
            ELSE <<s[i]>> \o ReplaceWord(s, i + 1, orig, rep)

\* shortNames[name] = ...: shortNames is a plain object, and an assignment of
\* a string to its key __proto__ stores nothing, so Object.entries never
\* yields that name
IsStored(name) == name # <<"_", "_", "p", "r", "o", "t", "o", "_", "_">>

\* for (const [orig, rep] of Object.entries(shortNames)) code = code.replace(...)
\* the entries from the k-th name on, in insertion order
RECURSIVE RenameFrom(_, _, _)
RenameFrom(s, names, k) ==
    IF k > Len(names) THEN s
    ELSE RenameFrom(IF IsStored(names[k])
                    THEN ReplaceWord(s, 1, names[k], ShortName(k))
                    ELSE s,
                    names, k + 1)

RenameLocals(s, names) == RenameFrom(s, names, 1)

(* ---------------------- simpleObfuscate, stage 5 ---------------------- *)

\* code.split('\n')
RECURSIVE SplitLines(_, _)
SplitLines(s, i) ==
    LET e == SkipUntil(s, i, {LF})
    IN  IF e > Len(s) THEN <<SubSeq(s, i, Len(s))>>
        ELSE <<SubSeq(s, i, e - 1)>> \o SplitLines(s, e + 1)

\* l.replace(/\s+/g, ' ')
RECURSIVE CollapseSpaces(_, _)
CollapseSpaces(l, i) ==
    IF i > Len(l) THEN <<>>
    ELSE IF l[i] \in WhiteSpace
         THEN <<" ">> \o CollapseSpaces(l, SkipWhile(l, i, WhiteSpace))
         ELSE <<l[i]>> \o CollapseSpaces(l, i + 1)

\* .filter(Boolean)
RECURSIVE NonEmpty(_)
NonEmpty(ls) ==
    IF Len(ls) = 0 THEN <<>>
    ELSE IF Len(Head(ls)) = 0 THEN NonEmpty(Tail(ls))
    ELSE <<Head(ls)>> \o NonEmpty(Tail(ls))

\* code.split('\n').map(l => l.replace(/\s+/g, ' ').trim()).filter(Boolean).join('\n')
Minify(s) ==
    LET ls == SplitLines(s, 1)
        mapped == [k \in 1..Len(ls) |-> Trim(CollapseSpaces(ls[k], 1))]
    IN  Join(NonEmpty(mapped), <<LF>>)

(* ---------------------- simpleObfuscate, stage 6 ---------------------- *)

\* strLiteral.slice(1, -1)
Inner(strLiteral) == SubSeq(strLiteral, 2, Len(strLiteral) - 1)

\* the six replace calls of toBase64, applied one after the other
Unescape(inner) ==
    LET a == ReplaceAll(inner, 1, <<"\\", "n">>, <<"\n">>)
        b == ReplaceAll(a, 1, <<"\\", "r">>, <<"\r">>)
        c == ReplaceAll(b, 1, <<"\\", "t">>, <<"\t">>)
        d == ReplaceAll(c, 1, <<"\\", "'">>, <<"'">>)
        e == ReplaceAll(d, 1, <<"\\", "\"">>, <<"\"">>)
    IN  ReplaceAll(e, 1, <<"\\", "\\">>, <<"\\">>)

toBase64(strLiteral) == Base64(Utf8Bytes(Unescape(Inner(strLiteral))))

\* `__B64("${payload}")`
B64Call(payload) == <<"_", "_", "B", "6", "4", "(", "\"">> \o payload \o <<"\"", ")">>

\* One attempt of /__STR(\d+)__/ at position i: the position after the match
\* (0 if none)
PlaceholderEnd(s, i) ==
    LET d == i + 5
        e == SkipWhile(s, d, Digits)
    IN  IF StartsWith(s, i, <<"_", "_", "S", "T", "R">>) /\ e > d /\ StartsWith(s, e, <<"_", "_">>)
        THEN e + 2 ELSE 0

\* the indices n of the placeholders /__STR(\d+)__/g finds, left to right
RECURSIVE PlaceholderRefs(_, _)
PlaceholderRefs(s, i) ==
    IF i > Len(s) THEN <<>>
    ELSE LET e == PlaceholderEnd(s, i)
         IN  IF e > 0
             THEN <<NumberOf(SubSeq(s, i + 5, e - 3))>> \o PlaceholderRefs(s, e)
             ELSE PlaceholderRefs(s, i + 1)

\* toBase64(strings[Number(n)]) throws a TypeError when strings[n] is
\* undefined: undefined.slice
EncodeThrows(s, strs) ==
    \E k \in 1..Len(PlaceholderRefs(s, 1)) : PlaceholderRefs(s, 1)[k] >= Len(strs)

\* code.replace(/__STR(\d+)__/g, (_, n) => `__B64("${toBase64(strings[Number(n)])}")`)
\* where no callback throws
RECURSIVE EncodeStrings(_, _, _)
EncodeStrings(s, i, strs) ==
    IF i > Len(s) THEN <<>>
    ELSE LET e == PlaceholderEnd(s, i)
         IN  IF e > 0
             THEN B64Call(toBase64(strs[NumberOf(SubSeq(s, i + 5, e - 3)) + 1]))
                  \o EncodeStrings(s, e, strs)
             ELSE <<s[i]>> \o EncodeStrings(s, i + 1, strs)

(* ------------------------- simpleObfuscate ---------------------------- *)

\* The whole function: [threw, out].  `if (!code) return ''` is the empty
\* text; a throw leaves no return value.
simpleObfuscate(src) ==
    IF Len(src) = 0 THEN [threw |-> FALSE, out |-> <<>>]
    ELSE
        LET x == ExtractStrings(src)
            stripped == RemoveComments(x.code)
            names == CollectLocals(stripped, 1, <<>>)
            minified == Minify(RenameLocals(stripped, names))
        IN  IF EncodeThrows(minified, x.strings)
            THEN [threw |-> TRUE, out |-> <<>>]
            ELSE [threw |-> FALSE, out |-> EncodeStrings(minified, 1, x.strings)]

(* --------------------------- JavaScript values ------------------------ *)

Undefined == [t |-> "undefined"]
JStr(s) == [t |-> "string", s |-> s]
JBuf(s) == [t |-> "buffer", s |-> s]
JNum(n) == [t |-> "number", n |-> n]
\* an array of texts
JArr(a) == [t |-> "array", a |-> a]
\* an object: its members <<[k |-> key, v |-> value]>>, in insertion order
JObj(m) == [t |-> "object", m |-> m]

\* ToBoolean
Truthy(v) ==
    CASE v.t = "undefined" -> FALSE
      [] v.t = "string" -> Len(v.s) > 0
      [] v.t = "number" -> v.n # 0
      [] OTHER -> TRUE

\* typeof obj.code === 'string'
HasStringCode(obj) ==
    \E k \in 1..Len(obj.m) :
        /\ obj.m[k].k = <<"c", "o", "d", "e">>
        /\ obj.m[k].v.t = "string"
        /\ \A j \in (k + 1)..Len(obj.m) : obj.m[j].k # <<"c", "o", "d", "e">>

\* obj.code, when it is a string
CodeOf(obj) ==
    LET k == CHOOSE k \in 1..Len(obj.m) :
                 /\ obj.m[k].k = <<"c", "o", "d", "e">>
                 /\ \A j \in (k + 1)..Len(obj.m) : obj.m[j].k # <<"c", "o", "d", "e">>
    IN  obj.m[k].v.s

(* --------------------------------- JSON ------------------------------- *)
(* JSON.parse and JSON.stringify for the grammar the model's bodies use:   *)
(* an object whose member values are strings or non-negative integers, a   *)
(* string, or a non-negative integer.  The handler reads one thing off the *)
(* parse: whether the value has a string `code`, and that string.          *)

JsonWs == {" ", "\t", "\n", "\r"}
JsonFail == [ok |-> FALSE]

RECURSIVE JsonStringFrom(_, _, _)
JsonStringFrom(s, j, acc) ==
    IF j > Len(s) THEN JsonFail
    ELSE IF s[j] = "\"" THEN [ok |-> TRUE, v |-> JStr(acc), next |-> j + 1]
    ELSE IF s[j] = "\\" THEN
        IF j + 1 > Len(s) THEN JsonFail
        ELSE IF s[j + 1] \in {"\"", "\\", "/"}
            THEN JsonStringFrom(s, j + 2, Append(acc, s[j + 1]))
        ELSE IF s[j + 1] = "n" THEN JsonStringFrom(s, j + 2, Append(acc, "\n"))
        ELSE IF s[j + 1] = "t" THEN JsonStringFrom(s, j + 2, Append(acc, "\t"))
        ELSE IF s[j + 1] = "r" THEN JsonStringFrom(s, j + 2, Append(acc, "\r"))
        ELSE IF s[j + 1] = "f" THEN JsonStringFrom(s, j + 2, Append(acc, "\f"))
        ELSE JsonFail
    ELSE IF CharCode(s[j]) < 32 THEN JsonFail
    ELSE JsonStringFrom(s, j + 1, Append(acc, s[j]))

JsonScalar(s, i) ==
    IF i > Len(s) THEN JsonFail
    ELSE IF s[i] = "\"" THEN JsonStringFrom(s, i + 1, <<>>)
    ELSE IF s[i] \in Digits THEN
        LET e == SkipWhile(s, i, Digits)
        IN  IF s[i] = "0" /\ e > i + 1 THEN JsonFail
            ELSE [ok |-> TRUE, v |-> JNum(NumberOf(SubSeq(s, i, e - 1))), next |-> e]
    ELSE JsonFail

RECURSIVE JsonMembers(_, _, _)
JsonMembers(s, i, acc) ==
    LET key == IF i <= Len(s) /\ s[i] = "\"" THEN JsonStringFrom(s, i + 1, <<>>)
               ELSE JsonFail
    IN  IF ~key.ok THEN JsonFail
        ELSE
            LET c == SkipWhile(s, key.next, JsonWs)
            IN  IF ~(c <= Len(s) /\ s[c] = ":") THEN JsonFail
                ELSE
                    LET val == JsonScalar(s, SkipWhile(s, c + 1, JsonWs))
                    IN  IF ~val.ok THEN JsonFail
                        ELSE
                            LET d == SkipWhile(s, val.next, JsonWs)
                                more == Append(acc, [k |-> key.v.s, v |-> val.v])
                            IN  IF d > Len(s) THEN JsonFail
                                ELSE IF s[d] = "}"
                                    THEN [ok |-> TRUE, v |-> JObj(more), next |-> d + 1]
                                ELSE IF s[d] = ","
                                    THEN JsonMembers(s, SkipWhile(s, d + 1, JsonWs), more)
                                ELSE JsonFail

JsonValue(s, i) ==
    IF i <= Len(s) /\ s[i] = "{" THEN
        LET j == SkipWhile(s, i + 1, JsonWs)
        IN  IF j <= Len(s) /\ s[j] = "}"
            THEN [ok |-> TRUE, v |-> JObj(<<>>), next |-> j + 1]
            ELSE JsonMembers(s, j, <<>>)
    ELSE JsonScalar(s, i)

\* JSON.parse(text): [ok |-> FALSE] is the SyntaxError
JSONParse(text) ==
    LET r == JsonValue(text, SkipWhile(text, 1, JsonWs))
    IN  IF r.ok /\ SkipWhile(text, r.next, JsonWs) > Len(text) THEN r ELSE JsonFail

RECURSIVE JsonQuote(_, _)
JsonQuote(s, i) ==
    IF i > Len(s) THEN <<>>
    ELSE (CASE s[i] = "\"" -> <<"\\", "\"">>
            [] s[i] = "\\" -> <<"\\", "\\">>
            [] s[i] = "\n" -> <<"\\", "n">>
            [] s[i] = "\t" -> <<"\\", "t">>
            [] s[i] = "\r" -> <<"\\", "r">>
            [] s[i] = "\f" -> <<"\\", "f">>
            [] OTHER -> <<s[i]>>) \o JsonQuote(s, i + 1)

JsonScalarText(v) ==
    IF v.t = "string" THEN <<"\"">> \o JsonQuote(v.s, 1) \o <<"\"">> ELSE Decimal(v.n)

\* JSON.stringify(obj)
JSONStringify(obj) ==
    <<"{">> \o Join([k \in 1..Len(obj.m) |->
                      <<"\"">> \o JsonQuote(obj.m[k].k, 1) \o <<"\"", ":">> \o JsonScalarText(obj.m[k].v)],
                  <<",">>) \o <<"}">>

(* ------------------------------ the handler --------------------------- *)

luaB64 == <<"\n", "l", "o", "c", "a", "l", " ", "f", "u", "n", "c", "t", "i", "o", "n", " ", "_", "_", "B", "6", "4", "(", "s", ")", "\n", " ", " ", "l", "o", "c", "a", "l", " ", "b", "=", "'", "A", "B", "C", "D", "E", "F", "G", "H", "I", "J", "K", "L", "M", "N", "O", "P", "Q", "R", "S", "T", "U", "V", "W", "X", "Y", "Z", "a", "b", "c", "d", "e", "f", "g", "h", "i", "j", "k", "l", "m", "n", "o", "p", "q", "r", "s", "t", "u", "v", "w", "x", "y", "z", "0", "1", "2", "3", "4", "5", "6", "7", "8", "9", "+", "/", "'", "\n", " ", " ", "s", "=", "s", ":", "g", "s", "u", "b", "(", "'", "[", "^", "'", ".", ".", "b", ".", ".", "'", "=", "]", "'", ",", "'", "'", ")", "\n", " ", " ", "r", "e", "t", "u", "r", "n", " ", "(", "s", ":", "g", "s", "u", "b", "(", "'", ".", "'", ",", "f", "u", "n", "c", "t", "i", "o", "n", "(", "x", ")", "\n", " ", " ", " ", " ", "i", "f", " ", "x", "=", "=", "'", "=", "'", " ", "t", "h", "e", "n", " ", "r", "e", "t", "u", "r", "n", " ", "'", "'", " ", "e", "n", "d", "\n", " ", " ", " ", " ", "l", "o", "c", "a", "l", " ", "r", ",", "f", "=", "'", "'", ",", "(", "b", ":", "f", "i", "n", "d", "(", "x", ")", "-", "1", ")", "\n", " ", " ", " ", " ", "f", "o", "r", " ", "i", "=", "6", ",", "1", ",", "-", "1", " ", "d", "o", " ", "r", "=", "r", ".", ".", "(", "f", "%", "2", "^", "i", "-", "f", "%", "2", "^", "(", "i", "-", "1", ")", ">", "0", " ", "a", "n", "d", " ", "'", "1", "'", " ", "o", "r", " ", "'", "0", "'", ")", " ", "e", "n", "d", "\n", " ", " ", " ", " ", "r", "e", "t", "u", "r", "n", " ", "r", "\n", " ", " ", "e", "n", "d", ")", ":", "g", "s", "u", "b", "(", "'", "%", "d", "%", "d", "%", "d", "%", "d", "%", "d", "%", "d", "%", "d", "%", "d", "'", ",", "f", "u", "n", "c", "t", "i", "o", "n", "(", "x", ")", "\n", " ", " ", " ", " ", "l", "o", "c", "a", "l", " ", "c", "=", "0", "\n", " ", " ", " ", " ", "f", "o", "r", " ", "i", "=", "1", ",", "8", " ", "d", "o", " ", "c", "=", "c", "+", "(", "x", ":", "s", "u", "b", "(", "i", ",", "i", ")", "=", "=", "'", "1", "'", " ", "a", "n", "d", " ", "2", "^", "(", "8", "-", "i", ")", " ", "o", "r", " ", "0", ")", " ", "e", "n", "d", "\n", " ", " ", " ", " ", "r", "e", "t", "u", "r", "n", " ", "s", "t", "r", "i", "n", "g", ".", "c", "h", "a", "r", "(", "c", ")", "\n", " ", " ", "e", "n", "d", ")", ")", "\n", "e", "n", "d", "\n">>

header == <<"-", "-", "[", "[", " ", "M", "a", "d", "e", " ", "B", "y", " ", "H", "i", "r", "o", "s", "h", "i", " ", "]", "]", "-", "-", "-", "-", " ", "O", "b", "f", "u", "s", "c", "a", "t", "e", "d", " ", "B", "y", " ", "H", "i", "r", "o", "s", "h", "i", "\n", "\n">>

\* the default of the GET branch
SampleCode == <<"p", "r", "i", "n", "t", "(", "\"", "H", "e", "l", "l", "o", " ", "E", "x", "e", "c", "u", "t", "o", "r", "!", "\"", ")">>

\* the assembly without the separating newline
AssembleNoSeparator(ob) == header \o luaB64 \o ob

\* header + luaB64 + '\n' + ob
Assemble(ob) == header \o luaB64 \o <<LF>> \o ob

CorsHeaders ==
    {<<"Access-Control-Allow-Origin", "*">>,
     <<"Access-Control-Allow-Methods", "GET,POST,OPTIONS">>,
     <<"Access-Control-Allow-Headers", "Content-Type">>}
TextHeader == <<"Content-Type", "text/plain; charset=utf-8">>
AttachmentHeader == <<"Content-Disposition", "attachment; filename=obfuscated.lua">>

EmptyBody == [kind |-> "empty"]
TextBody(text) == [kind |-> "text", text |-> text]
ErrorBody(error) == [kind |-> "json", error |-> error]
\* { error: 'Internal server error', message: String(err.message) }
InternalErrorBody(message) ==
    [kind |-> "json", error |-> "Internal server error", message |-> message]

NoCodeBody == ErrorBody("No code provided in POST body")
NotAllowedBody == ErrorBody("Method not allowed")
\* the message of the TypeError of undefined.slice
SliceMessage == "Cannot read properties of undefined (reading 'slice')"
\* the message of the error a request stream emits
StreamMessage == "stream error"

\* let src = req.query && req.query.code ? req.query.code : 'print("Hello Executor!")';
\* if (Array.isArray(src)) src = src.join('\n');
QuerySource(q) ==
    IF ~Truthy(q) THEN SampleCode
    ELSE IF q.t = "array" THEN Join(q.a, <<LF>>)
    ELSE q.s

\* req.body && typeof req.body === 'object' && Object.keys(req.body).length > 0
IsParsedBody(b) == b.t = "object" /\ Len(b.m) > 0

\* raw = typeof req.body.code === 'string' ? req.body.code : JSON.stringify(req.body)
ParsedBodyRaw(b) == IF HasStringCode(b) THEN CodeOf(b) ELSE JSONStringify(b)

\* the first branch of readRawBody: the body is a non-empty string or a Buffer
HasTextBody(b) == (b.t = "string" /\ Len(b.s) > 0) \/ b.t = "buffer"

\* try { const parsed = JSON.parse(raw || '{}');
\*       if (parsed && typeof parsed.code === 'string') raw = parsed.code; } catch (e) {}
SelectCode(text) ==
    LET parsed == JSONParse(IF Len(text) = 0 THEN <<"{", "}">> ELSE text)
    IN  IF parsed.ok /\ parsed.v.t = "object" /\ HasStringCode(parsed.v)
        THEN CodeOf(parsed.v) ELSE text

\* !raw || raw.trim().length === 0
IsBlank(text) == Len(text) = 0 \/ Len(Trim(text)) = 0

(* ------------------------------- state -------------------------------- *)

VARIABLES
    \* --- one run of simpleObfuscate, stage by stage
    input,      \* the argument of simpleObfuscate
    code,       \* its variable `code`
    strings,    \* its array `strings`
    locals,     \* its Set `locals`, in insertion order
    pcT,        \* the stage about to run: "extract" .. "encode", "done", "threw"
    \* --- one invocation of the handler
    req,        \* the request: method, query.code, body, and the text its stream carries
    pc,         \* "start", "await" (at `await readRawBody()`), "obfuscate" (inside
                \* the call of simpleObfuscate), "done"
    headers,    \* the headers set on res
    status,     \* res.status(...), 0 before
    resBody,    \* what end / send / json sent
    responses,  \* how many times end / send / json were called
    data,       \* readRawBody's `data`
    delivered,  \* how many characters of the stream the 'data' events delivered
    streamState,\* "idle" (no listeners), "open", "ended", "errored"
    timer,      \* the 50 ms timer: "unset", "pending", "fired"
    settledBy,  \* what settled readRawBody's promise: "none", "body", "end", "timer", "error"
    rawRead,    \* the value `await readRawBody()` returned, Undefined before
    raw,        \* the handler's variable `raw`
    calls,      \* the arguments simpleObfuscate was called with
    threw       \* an exception was thrown inside the try block

tvars == <<input, code, strings, locals, pcT>>
hvars == <<req, pc, headers, status, resBody, responses, data, delivered,
           streamState, timer, settledBy, rawRead, raw, calls, threw>>
vars == <<input, code, strings, locals, pcT, req, pc, headers, status, resBody,
          responses, data, delivered, streamState, timer, settledBy, rawRead,
          raw, calls, threw>>

(* ------------------------------- inputs ------------------------------- *)

\* the texts made of at most n fragments of F
RECURSIVE TextsOf(_, _)
TextsOf(F, n) ==
    IF n = 0 THEN {<<>>}
    ELSE LET shorter == TextsOf(F, n - 1)
         IN  shorter \cup {t \o f : t \in shorter, f \in F}

\* fragments of Lua source: names, declarations, comments, a literal, a
\* placeholder look-alike, white space
CodeFrags ==
    {<<"x">>, <<"x", "y">>, <<"_", "a">>, <<" ">>, <<"\n">>, <<"-", "-">>, <<"-", "-", "[", "[">>, <<"]", "]">>,
     <<"l", "o", "c", "a", "l", " ", "x", "\n">>, <<"l", "o", "c", "a", "l", " ", "_", "a", "\n">>, <<"l", "o", "c", "a", "l", " ", "_", "_", "p", "r", "o", "t", "o", "_", "_", "\n">>, <<"_", "_", "S", "T", "R", "0", "_", "_">>, <<"\"", "a", "\"">>}

\* fragments of string literals: quotes, the backslash, escape letters
LitFrags == {<<"\"">>, <<"'">>, <<"\\">>, <<"n">>, <<"a">>}

\* code a request carries
CodeTexts == {<<>>, <<" ">>, <<"x", " ", "=", " ", "1">>, <<"p", "(", "\"", "a", "\"", ")">>, <<"_", "_", "S", "T", "R", "0", "_", "_">>}

\* raw request bodies: code as plain text, and JSON
RawTexts ==
    CodeTexts \cup
    {<<"{", "\"", "c", "o", "d", "e", "\"", ":", "\"", "x", " ", "=", " ", "1", "\"", "}">>, <<"{", "\"", "c", "o", "d", "e", "\"", ":", "\"", "\"", "}">>, <<"{", "\"", "c", "o", "d", "e", "\"", ":", "\"", " ", "\"", "}">>, <<"{", "\"", "c", "o", "d", "e", "\"", ":", "\"", "_", "_", "S", "T", "R", "0", "_", "_", "\"", "}">>,
     <<"{", "\"", "c", "o", "d", "e", "\"", ":", "1", "}">>, <<"{", "\"", "f", "o", "o", "\"", ":", "1", "}">>, <<"{", "}">>, <<"{", "\"", "c", "o", "d", "e", "\"", ":">>}

QueryValues ==
    {Undefined} \cup {JStr(t) : t \in CodeTexts}
    \cup {JArr(a) : a \in UNION {[1..n -> CodeTexts] : n \in 1..MaxRepeat}}

BodyValues ==
    {Undefined, JObj(<<>>)}
    \cup {JStr(t) : t \in RawTexts} \cup {JBuf(t) : t \in RawTexts}
    \cup {JObj(<<[k |-> <<"c", "o", "d", "e">>, v |-> JStr(t)]>>) : t \in CodeTexts}
    \cup {JObj(<<[k |-> <<"c", "o", "d", "e">>, v |-> JNum(1)]>>),
          JObj(<<[k |-> <<"f", "o", "o">>, v |-> JNum(1)]>>),
          JObj(<<[k |-> <<"n", "a", "m", "e">>, v |-> JStr(<<"a">>)]>>)}

\* the POST branch reads the request stream for these bodies
ReadsStream(b) == ~IsParsedBody(b) /\ ~HasTextBody(b)

Request(m, q, b, s) == [method |-> m, query |-> q, body |-> b, stream |-> s]

Requests ==
    {Request(m, Undefined, Undefined, <<>>) : m \in {"OPTIONS", "PUT"}}
    \cup {Request("GET", q, Undefined, <<>>) : q \in QueryValues}
    \cup {Request("POST", Undefined, b, <<>>) : b \in {b \in BodyValues : ~ReadsStream(b)}}
    \cup {Request("POST", Undefined, b, s) :
             b \in {b \in BodyValues : ReadsStream(b)}, s \in RawTexts}

(* ------------------------ simpleObfuscate, as steps ------------------- *)

TIdle ==
    /\ input = <<>> /\ code = <<>> /\ strings = <<>> /\ locals = <<>> /\ pcT = "idle"

HIdle ==
    /\ req = Request("NONE", Undefined, Undefined, <<>>)
    /\ pc = "idle" /\ headers = {} /\ status = 0 /\ resBody = EmptyBody
    /\ responses = 0 /\ data = <<>> /\ delivered = 0 /\ streamState = "idle"
    /\ timer = "unset" /\ settledBy = "none" /\ rawRead = Undefined
    /\ raw = <<>> /\ calls = <<>> /\ threw = FALSE

TInit(texts) ==
    /\ input \in texts
    /\ code = input
    /\ strings = <<>>
    /\ locals = <<>>
    /\ pcT = "extract"
    /\ HIdle

\* if (!code) return '';  then stage 1
StepExtract ==
    /\ pcT = "extract"
    /\ IF Len(code) = 0
       THEN /\ pcT' = "done"
            /\ UNCHANGED <<code, strings>>
       ELSE /\ code' = ExtractStrings(code).code
            /\ strings' = ExtractStrings(code).strings
            /\ pcT' = "comments"
    /\ UNCHANGED <<input, locals>>
    /\ UNCHANGED hvars

StepComments ==
    /\ pcT = "comments"
    /\ code' = RemoveComments(code)
    /\ pcT' = "locals"
    /\ UNCHANGED <<input, strings, locals>>
    /\ UNCHANGED hvars

StepLocals ==
    /\ pcT = "locals"
    /\ locals' = CollectLocals(code, 1, <<>>)
    /\ pcT' = "rename"
    /\ UNCHANGED <<input, code, strings>>
    /\ UNCHANGED hvars

StepRename ==
    /\ pcT = "rename"
    /\ code' = RenameLocals(code, locals)
    /\ pcT' = "minify"
    /\ UNCHANGED <<input, strings, locals>>
    /\ UNCHANGED hvars

StepMinify ==
    /\ pcT = "minify"
    /\ code' = Minify(code)
    /\ pcT' = "encode"
    /\ UNCHANGED <<input, strings, locals>>
    /\ UNCHANGED hvars

StepEncode ==
    /\ pcT = "encode"
    /\ IF EncodeThrows(code, strings)
       THEN /\ pcT' = "threw"
            /\ UNCHANGED code
       ELSE /\ code' = EncodeStrings(code, 1, strings)
            /\ pcT' = "done"
    /\ UNCHANGED <<input, strings, locals>>
    /\ UNCHANGED hvars

TNext ==
    \/ StepExtract
    \/ StepComments
    \/ StepLocals
    \/ StepRename
    \/ StepMinify
    \/ StepEncode

\* simpleObfuscate on Lua-like texts
InitT == TInit(TextsOf(CodeFrags, MaxFrags))
SpecT == InitT /\ [][TNext]_vars

\* simpleObfuscate on texts of quotes and escapes
InitLit == TInit(TextsOf(LitFrags, MaxLitFrags))
SpecLit == InitLit /\ [][TNext]_vars

(* --------------------------- the handler, as steps --------------------- *)

Init ==
    /\ req \in Requests
    /\ pc = "start"
    /\ headers = {}
    /\ status = 0
    /\ resBody = EmptyBody
    /\ responses = 0
    /\ data = <<>>
    /\ delivered = 0
    /\ streamState = "idle"
    /\ timer = "unset"
    /\ settledBy = "none"
    /\ rawRead = Undefined
    /\ raw = <<>>
    /\ calls = <<>>
    /\ threw = FALSE
    /\ TIdle

\* res.status(st) followed by end / send / json, with the headers hs set
Respond(st, body, hs) ==
    /\ status' = st
    /\ resBody' = body
    /\ headers' = hs
    /\ responses' = responses + 1
    /\ pc' = "done"

\* const ob = simpleObfuscate(src): the call; its stages run as the steps above
Call(src) ==
    /\ calls' = Append(calls, src)
    /\ input' = src
    /\ code' = src
    /\ strings' = <<>>
    /\ locals' = <<>>
    /\ pcT' = "extract"
    /\ pc' = "obfuscate"

\* the POST branch from `if (!raw || raw.trim().length === 0)` to the call of
\* simpleObfuscate
PostFinish(sel) ==
    /\ raw' = sel
    /\ IF IsBlank(sel)
       THEN /\ Respond(400, NoCodeBody, CorsHeaders)
            /\ UNCHANGED <<calls, threw>>
            /\ UNCHANGED tvars
       ELSE /\ Call(sel)
            /\ headers' = CorsHeaders
            /\ UNCHANGED <<status, resBody, responses, threw>>

\* the preflight branch without its `return`: the 204 is followed by the 405
OptionsNoReturn ==
    /\ pc = "start"
    /\ req.method = "OPTIONS"
    /\ status' = 405
    /\ resBody' = NotAllowedBody
    /\ headers' = CorsHeaders
    /\ responses' = responses + 2
    /\ pc' = "done"
    /\ UNCHANGED <<req, data, delivered, streamState, timer, settledBy, rawRead, raw,
                   calls, threw>>
    /\ UNCHANGED tvars

\* the three setHeader calls; if (req.method === 'OPTIONS') return res.status(204).end();
Options ==
    /\ pc = "start"
    /\ req.method = "OPTIONS"
    /\ Respond(204, EmptyBody, CorsHeaders)
    /\ UNCHANGED <<req, data, delivered, streamState, timer, settledBy, rawRead, raw,
                   calls, threw>>
    /\ UNCHANGED tvars

\* the GET branch up to the call of simpleObfuscate
Get ==
    /\ pc = "start"
    /\ req.method = "GET"
    /\ headers' = CorsHeaders
    /\ Call(QuerySource(req.query))
    /\ UNCHANGED <<req, status, resBody, responses, data, delivered, streamState, timer,
                   settledBy, rawRead, raw, threw>>

\* the POST branch, the body already parsed into a non-empty object
PostParsed ==
    /\ pc = "start"
    /\ req.method = "POST"
    /\ IsParsedBody(req.body)
    /\ PostFinish(ParsedBodyRaw(req.body))
    /\ UNCHANGED <<req, data, delivered, streamState, timer, settledBy, rawRead>>

\* the POST branch, readRawBody returning the string or Buffer body
PostText ==
    /\ pc = "start"
    /\ req.method = "POST"
    /\ ~IsParsedBody(req.body)
    /\ HasTextBody(req.body)
    /\ rawRead' = JStr(req.body.s)
    /\ settledBy' = "body"
    /\ PostFinish(SelectCode(req.body.s))
    /\ UNCHANGED <<req, data, delivered, streamState, timer>>

\* the POST branch up to `await readRawBody()`: the promise registers the
\* three listeners and the timer
PostAwait ==
    /\ pc = "start"
    /\ req.method = "POST"
    /\ ReadsStream(req.body)
    /\ pc' = "await"
    /\ headers' = CorsHeaders
    /\ streamState' = "open"
    /\ timer' = "pending"
    /\ UNCHANGED <<req, status, resBody, responses, data, delivered, settledBy, rawRead,
                   raw, calls, threw>>
    /\ UNCHANGED tvars

\* res.status(405).json({ error: 'Method not allowed' })
NotAllowed ==
    /\ pc = "start"
    /\ req.method \notin {"OPTIONS", "GET", "POST"}
    /\ Respond(405, NotAllowedBody, CorsHeaders)
    /\ UNCHANGED <<req, data, delivered, streamState, timer, settledBy, rawRead, raw,
                   calls, threw>>
    /\ UNCHANGED tvars

\* simpleObfuscate returned or threw: the 200 with the assembled text (GET:
\* lines 216-218, POST: lines 243-248), or the catch block's 500
Return ==
    /\ pc = "obfuscate"
    /\ pcT \in {"done", "threw"}
    /\ IF pcT = "threw"
       THEN /\ threw' = TRUE
            /\ Respond(500, InternalErrorBody(SliceMessage), headers)
       ELSE /\ threw' = FALSE
            /\ Respond(200, TextBody(Assemble(code)),
                       headers \cup (IF req.method = "POST"
                                     THEN {AttachmentHeader, TextHeader}
                                     ELSE {TextHeader}))
    /\ UNCHANGED <<req, data, delivered, streamState, timer, settledBy, rawRead, raw,
                   calls>>
    /\ UNCHANGED tvars

\* The callbacks of the stream and of the timer run between the handler's
\* synchronous stretches: while it waits at the await, and after it returned.
CallbacksMayRun == pc \in {"await", "done"}

\* resolve(value) of readRawBody's promise and, when it was pending, the POST
\* branch from the await on; a settled promise ignores it
Resolve(by, value) ==
    IF pc = "await"
    THEN /\ settledBy' = by
         /\ rawRead' = JStr(value)
         /\ PostFinish(SelectCode(value))
    ELSE /\ UNCHANGED <<settledBy, rawRead, raw, calls, threw, status, resBody, headers,
                        responses, pc>>
         /\ UNCHANGED tvars

\* req.on('data', chunk => data += chunk): the next k characters arrive
StreamData ==
    /\ CallbacksMayRun
    /\ streamState = "open"
    /\ \E k \in 1..(Len(req.stream) - delivered) :
        /\ data' = data \o SubSeq(req.stream, delivered + 1, delivered + k)
        /\ delivered' = delivered + k
    /\ UNCHANGED <<req, pc, headers, status, resBody, responses, streamState, timer,
                   settledBy, rawRead, raw, calls, threw>>
    /\ UNCHANGED tvars

\* req.on('end', () => resolve(data))
StreamEnd ==
    /\ CallbacksMayRun
    /\ streamState = "open"
    /\ delivered = Len(req.stream)
    /\ streamState' = "ended"
    /\ Resolve("end", data)
    /\ UNCHANGED <<req, data, delivered, timer>>

\* an 'error' listener that resolves with what was read instead of rejecting
StreamErrorResolves ==
    /\ CallbacksMayRun
    /\ streamState = "open"
    /\ streamState' = "errored"
    /\ Resolve("error", data)
    /\ UNCHANGED <<req, data, delivered, timer>>

\* req.on('error', err => reject(err)); the rejection is thrown at the await
\* and caught by the handler's catch block
StreamError ==
    /\ CallbacksMayRun
    /\ streamState = "open"
    /\ streamState' = "errored"
    /\ IF pc = "await"
       THEN /\ settledBy' = "error"
            /\ threw' = TRUE
            /\ Respond(500, InternalErrorBody(StreamMessage), headers)
            /\ UNCHANGED <<rawRead, raw, calls>>
       ELSE UNCHANGED <<settledBy, rawRead, raw, calls, threw, status, resBody, headers,
                        responses, pc>>
    /\ UNCHANGED <<req, data, delivered, timer>>
    /\ UNCHANGED tvars

\* setTimeout(() => resolve(''), 50)
Timer ==
    /\ CallbacksMayRun
    /\ timer = "pending"
    /\ timer' = "fired"
    /\ Resolve("timer", <<>>)
    /\ UNCHANGED <<req, data, delivered, streamState>>

\* the handler's own steps: its synchronous start, the stages of
\* simpleObfuscate, and its return
HandlerStep ==
    \/ Options
    \/ Get
    \/ PostParsed
    \/ PostText
    \/ PostAwait
    \/ NotAllowed
    \/ (pc = "obfuscate" /\ TNext)
    \/ Return

Next ==
    \/ Options
    \/ Get
    \/ PostParsed
    \/ PostText
    \/ PostAwait
    \/ NotAllowed
    \/ StepExtract
    \/ StepComments
    \/ StepLocals
    \/ StepRename
    \/ StepMinify
    \/ StepEncode
    \/ Return
    \/ StreamData
    \/ StreamEnd
    \/ StreamError
    \/ Timer

Spec == Init /\ [][Next]_vars

\* The handler's synchronous code (lines 111-258) runs to its next await or
\* return: control does not rest for ever at the entry or inside the call of
\* simpleObfuscate.  HandlerStep is enabled exactly when pc is "start" or
\* "obfuscate" and every HandlerStep leaves the state it was taken in for
\* good, so this is weak fairness of HandlerStep written without ENABLED.
RunsToCompletion == []<>(pc \notin {"start", "obfuscate"})

\* The event loop fires a pending timer (line 133); whether and when the
\* request stream emits is up to the client, so the stream gets no fairness.
FairSpec == Spec /\ RunsToCompletion /\ WF_vars(Timer)

(* ------------------------------- claims ------------------------------- *)

\* C1: simpleObfuscate never throws: every input text yields an output text,
\* and the empty text yields the empty text.
C1_NeverThrows ==
    /\ pcT # "threw"
    /\ (pcT = "done" /\ input = <<>> => code = <<>>)

\* the text a POST request carries as its raw body
C2_RawBody(r) == IF ReadsStream(r.body) THEN r.stream ELSE r.body.s

\* a non-blank code string is recoverable from the request: from the `code`
\* field of the parsed body, or from the `code` field the raw body parses to
C2_Recoverable(r) ==
    IF r.body.t = "object" /\ Len(r.body.m) > 0
    THEN HasStringCode(r.body) /\ ~IsBlank(CodeOf(r.body))
    ELSE LET p == JSONParse(C2_RawBody(r))
         IN  /\ p.ok
             /\ p.v.t = "object"
             /\ HasStringCode(p.v)
             /\ ~IsBlank(CodeOf(p.v))

\* C2: a POST is answered 400 "No code provided in POST body" exactly when no
\* non-blank code string is recoverable, and 200 with the attachment otherwise.
C2_BadRequestIffNoCode ==
    (pc = "done" /\ req.method = "POST") =>
        IF C2_Recoverable(req)
        THEN status = 200 /\ resBody.kind = "text" /\ AttachmentHeader \in headers
        ELSE status = 400 /\ resBody = NoCodeBody

\* the code of a request as the claim reads it: the query parameter, its
\* repeated values joined by newlines, the sample when it is absent
C3_CodeWhenAbsent(r) ==
    IF r.method # "GET" THEN raw
    ELSE IF r.query.t = "undefined" THEN <<"p", "r", "i", "n", "t", "(", "\"", "H", "e", "l", "l", "o", " ", "E", "x", "e", "c", "u", "t", "o", "r", "!", "\"", ")">>
    ELSE IF r.query.t = "array" THEN Join(r.query.a, <<"\n">>)
    ELSE r.query.s

\* the same, the sample standing in for an empty parameter too
C3_CodeWhenAbsentOrEmpty(r) ==
    IF r.method = "GET" /\ r.query.t = "string" /\ r.query.s = <<>>
    THEN <<"p", "r", "i", "n", "t", "(", "\"", "H", "e", "l", "l", "o", " ", "E", "x", "e", "c", "u", "t", "o", "r", "!", "\"", ")">>
    ELSE C3_CodeWhenAbsent(r)

C3_Body(src) ==
    [kind |-> "text", text |-> header \o luaB64 \o <<"\n">> \o simpleObfuscate(src).out]

\* C3 as stated: every 200 body is the banner, the decoder, a newline and the
\* transformed code, the code of a GET being the sample only when the
\* parameter is absent.
C3_SampleOnlyWhenAbsent ==
    (pc = "done" /\ status = 200) => resBody = C3_Body(C3_CodeWhenAbsent(req))

\* C3 as amended: the same, the code of a GET being the sample when the
\* parameter is absent or the empty string.
C3_OkBodyIsPreambleAndTransform ==
    (pc = "done" /\ status = 200) => resBody = C3_Body(C3_CodeWhenAbsentOrEmpty(req))

\* a GET with an empty `code` parameter was answered with the transformed sample
C3_EmptyParameterAnswered ==
    /\ pc = "done"
    /\ status = 200
    /\ req.method = "GET"
    /\ req.query = JStr(<<>>)
    /\ Contains(resBody.text, <<"S", "G", "V", "s", "b", "G", "8", "g", "R", "X", "h", "l", "Y", "3", "V", "0", "b", "3", "I", "h">>)

C4_StatusByMethod ==
    /\ CorsHeaders \subseteq headers
    /\ (status = 500 => threw)
    /\ CASE req.method = "OPTIONS" -> status = 204 /\ resBody = EmptyBody /\ calls = <<>>
         [] req.method = "GET" -> status \in {200, 500}
         [] req.method = "POST" -> status \in {200, 400, 500}
         [] OTHER -> status = 405 /\ resBody = ErrorBody("Method not allowed")

\* C4: every invocation eventually sends a response, never sends two, and the
\* response carries the CORS headers and the status of its method: 204 and
\* no Transformer run for OPTIONS, 200 for GET, 200 or 400 for POST, 405 for
\* the rest, 500 in place of these only after an exception inside the try.
C4_OneResponsePerInvocation ==
    /\ <>(responses = 1)
    /\ [](responses <= 1)
    /\ [](responses = 1 => C4_StatusByMethod)

\* the timer fired after the stream's end had settled the promise and the
\* response was sent
C4_TimerAfterResponse ==
    /\ pc = "done"
    /\ settledBy = "end"
    /\ timer = "fired"
    /\ responses = 1

\* the raw body was read and is not valid JSON
C5_Unparsable == rawRead.t = "string" /\ ~JSONParse(rawRead.s).ok

C6_NoCommentRemains ==
    pcT = "done" => ~Contains(code, <<"-", "-">>)

\* the alias of the k-th declared name as the claim gives it
C7_Alias(k) == <<"_", AsciiHigh[((k - 1) % 26) + 1]>>

\* every whole word of s that is a declared name replaced by that name's alias
RECURSIVE C7_Renamed(_, _, _)
C7_Renamed(s, i, names) ==
    IF i > Len(s) THEN <<>>
    ELSE IF s[i] \in WordChars THEN
        LET e == SkipWhile(s, i, WordChars)
            w == SubSeq(s, i, e - 1)
        IN  (IF \E k \in 1..Len(names) : names[k] = w
             THEN C7_Alias(CHOOSE k \in 1..Len(names) : names[k] = w)
             ELSE w) \o C7_Renamed(s, e, names)
    ELSE <<s[i]>> \o C7_Renamed(s, i + 1, names)

\* C7: renaming turns every whole-word occurrence of the k-th declared name
\* into `_` and letter (k-1) mod 26, whatever the declared names are.
C7_RenameConsistent ==
    [][pcT = "rename" => code' = C7_Renamed(code, 1, locals)]_vars

\* the input holds no string literal, no comment and no local declaration
C8_Plain(text) ==
    /\ ExtractStrings(text).strings = <<>>
    /\ ~Contains(text, <<"-", "-">>)
    /\ CollectLocals(text, 1, <<>>) = <<>>

\* C8: on an input without literal, comment and local declaration
\* simpleObfuscate returns the input minified and nothing else changed.
C8_PlainTextOnlyMinified ==
    (pcT \in {"done", "threw"} /\ C8_Plain(input)) =>
        pcT = "done" /\ code = Minify(input)

\* the value a literal denotes: the text between its quotes read left to
\* right, each of the escapes \n \r \t \' \" \\ standing for one character
RECURSIVE C9_Value(_, _)
C9_Value(inner, i) ==
    IF i > Len(inner) THEN <<>>
    ELSE IF inner[i] = "\\" /\ i < Len(inner)
            /\ inner[i + 1] \in {"n", "r", "t", "'", "\"", "\\"}
    THEN <<(CASE inner[i + 1] = "n" -> "\n"
              [] inner[i + 1] = "r" -> "\r"
              [] inner[i + 1] = "t" -> "\t"
              [] OTHER -> inner[i + 1])>> \o C9_Value(inner, i + 2)
    ELSE <<inner[i]>> \o C9_Value(inner, i + 1)

\* s with every placeholder replaced by the call carrying the base64 of the
\* value its literal denotes
RECURSIVE C9_Encoded(_, _, _)
C9_Encoded(s, i, strs) ==
    IF i > Len(s) THEN <<>>
    ELSE LET e == PlaceholderEnd(s, i)
         IN  IF e > 0
             THEN B64Call(Base64(Utf8Bytes(
                      C9_Value(Inner(strs[NumberOf(SubSeq(s, i + 5, e - 3)) + 1]), 1))))
                  \o C9_Encoded(s, e, strs)
             ELSE <<s[i]>> \o C9_Encoded(s, i + 1, strs)

\* C9: the payload of every __B64 call is the base64 of the value its literal
\* denotes.
C9_PayloadIsBase64OfValue ==
    [][(pcT = "encode" /\ pcT' = "done") => code' = C9_Encoded(code, 1, strings)]_vars

\* C10: a POST read from the request stream hands the Transformer the whole
\* streamed text: when the stream carries non-blank code and emits no
\* error, the answer is not 400 and the Transformer's argument is that code.
C10_StreamedCodeReachesTransformer ==
    (/\ pc = "done"
     /\ req.method = "POST"
     /\ ReadsStream(req.body)
     /\ settledBy # "error"
     /\ ~IsBlank(SelectCode(req.stream)))
        => status # 400 /\ calls = <<SelectCode(req.stream)>>

====
